---- MODULE Spec2Model ----
(***************************************************************************)
(* A model of the survey application: the Data Store tables of the        *)
(* migration (surveys, questions, responses, answers), the TakeSurvey     *)
(* form, the CreateSurvey form, the SurveyList, SurveyResults,            *)
(* UserResponseComparison and UserResponseDetail views.                   *)
(*                                                                         *)
(* JavaScript values of mixed shape (an answer is a string or a list of   *)
(* strings) are tagged records, so that truthiness (`!value`) and         *)
(* Array.isArray are computed as the code computes them.  Option labels   *)
(* are ordinary labels: none is the name of a property that a plain       *)
(* JavaScript object inherits (constructor, toString, ...).               *)
(***************************************************************************)
EXTENDS Integers, Sequences, FiniteSets, TLC

VARIABLES surveys, questions, responses, answers,
          take, create, results, compare, detail, list

vars == <<surveys, questions, responses, answers,
          take, create, results, compare, detail, list>>

\* The state of the components other than the one an action belongs to.
OtherThanTake == <<create, results, compare, detail, list>>
OtherThanCreate == <<take, results, compare, detail, list>>
OtherThanResults == <<take, create, compare, detail, list>>
OtherThanCompare == <<take, create, results, detail, list>>
OtherThanDetail == <<take, create, results, compare, list>>
OtherThanList == <<take, create, results, compare, detail>>

----------------------------------------------------------------------------
(* Bounds *)

NForms == 2          \* TakeSurvey forms that can be open at the same time
MaxQuestions == 2    \* questions of a survey
MaxRows == 3         \* responses of the survey a results view aggregates
MaxOptions == 2      \* options of a question
MaxSurveys == 2      \* rows of the surveys table
MaxCount == 8        \* counts and totals getPercentage is tried on
MaxEditsInFlight == 1  \* edits of the draft during one handleSave round trip
MaxHistory == 4      \* responses in the history UserResponseComparison loads
MaxStrayRows == 2    \* responses of a survey with answers outside the options
MaxListRequests == 2 \* loadSurveys requests of one SurveyList in flight

Users == {"u1", "u2"}
NoUser == "none"
Labels == {"A", "B"}
TextValues == {"", "x"}
Forms == 1..NForms
SurveyId == 1

----------------------------------------------------------------------------
(* Values *)

Str(s) == [kind |-> "str", s |-> s, l |-> <<>>]
List(l) == [kind |-> "list", s |-> "", l |-> l]

\* `!v` for a value that is present: only the empty string is falsy, an array
\* (also the empty one) is truthy.
Falsy(v) == v.kind = "str" /\ v.s = ""

isArray(v) == v.kind = "list"

\* No value at all.
NoValue == [kind |-> "none", s |-> "", l |-> <<>>]

Range(s) == {s[i] : i \in DOMAIN s}

RECURSIVE SeqSum(_)
SeqSum(s) == IF s = <<>> THEN 0 ELSE s[1] + SeqSum(Tail(s))

NoError == [kind |-> "", text |-> ""]
RequiredError(text) == [kind |-> "required", text |-> text]
DbError == [kind |-> "db", text |-> ""]
DuplicateError == [kind |-> "duplicate", text |-> ""]
NotFoundError == [kind |-> "notfound", text |-> ""]

----------------------------------------------------------------------------
(* Data Store *)

QText(i) == IF i = 1 THEN "Q1" ELSE IF i = 2 THEN "Q2" ELSE "Q3"

QuestionTypes == {"single_choice", "multiple_choice", "text"}

\* UNIQUE(survey_id, user_id) of the responses table.
UniqueViolationOff(rows, s, u) == FALSE
UniqueViolation(rows, s, u) ==
    \E i \in DOMAIN rows : rows[i].survey_id = s /\ rows[i].user_id = u

\* id uuid PRIMARY KEY DEFAULT gen_random_uuid(): a fresh id.  A row's
\* created_at (DEFAULT now()) is later than that of every row before it; the
\* responses insert uses the same number for both.
NewId(rows) == Len(rows) + 1

\* What a step that sends no insert does to the tables.
DbLastAnswerDropped ==
    /\ UNCHANGED <<surveys, questions, responses>>
    /\ answers' = SubSeq(answers, 1, Len(answers) - 1)
DbUnchanged == UNCHANGED <<surveys, questions, responses, answers>>

----------------------------------------------------------------------------
(* TakeSurvey *)

TakeUnmounted(u) ==
    [user |-> u, mounted |-> FALSE, pc |-> "idle", survey |-> 0,
     questions |-> <<>>, answers |-> <<>>, loading |-> TRUE,
     submitting |-> FALSE, error |-> NoError, alreadySubmitted |-> FALSE,
     response |-> 0]

\* useState initial values, then useEffect -> loadSurvey().
TakeMounted(u) ==
    [TakeUnmounted(u) EXCEPT !.mounted = TRUE, !.pc = "loadSurvey"]

\* The early returns of the render function.
ViewWithoutNotFound(t) ==
    IF ~t.mounted THEN "unmounted"
    ELSE IF t.loading THEN "loading"
    ELSE IF t.alreadySubmitted THEN "alreadySubmitted"
    ELSE "form"
View(t) ==
    IF ~t.mounted THEN "unmounted"
    ELSE IF t.loading THEN "loading"
    ELSE IF t.alreadySubmitted THEN "alreadySubmitted"
    ELSE IF t.survey = 0 THEN "notFound"
    ELSE "form"

\* `!answers[question.id]`
NotAnswered(ans, qid) == qid \notin DOMAIN ans \/ Falsy(ans[qid])

handleAnswerChange(ans, qid, value) ==
    [k \in DOMAIN ans \cup {qid} |-> IF k = qid THEN value ELSE ans[k]]

handleCheckboxChangeAppend(ans, qid, option, checked) ==
    LET currentAnswers == IF NotAnswered(ans, qid) THEN <<>> ELSE ans[qid].l
    IN  handleAnswerChange(ans, qid, List(Append(currentAnswers, option)))
handleCheckboxChange(ans, qid, option, checked) ==
    LET currentAnswers == IF NotAnswered(ans, qid) THEN <<>> ELSE ans[qid].l
    IN  IF checked
        THEN handleAnswerChange(ans, qid, List(Append(currentAnswers, option)))
        ELSE handleAnswerChange(ans, qid,
                 List(SelectSeq(currentAnswers, LAMBDA a : a # option)))

\* (answers[question.id] as string[] || []).includes(option)
Checked(ans, qid, option) ==
    ~NotAnswered(ans, qid) /\ option \in Range(ans[qid].l)

\* The indexes of the questions the loop of handleSubmit stops at.
Unmet(qs, ans) ==
    {i \in DOMAIN qs : qs[i].is_required /\ NotAnswered(ans, qs[i].id)}

Min(S) == CHOOSE x \in S : \A y \in S : x <= y

\* Object.entries(answers).map(...), rows in key order.
RECURSIVE AnswersToInsert(_, _, _)
AnswersToInsert(rid, ans, keys) ==
    IF keys = {} THEN <<>>
    ELSE LET k == Min(keys)
         IN  <<[response_id |-> rid, question_id |-> k, answer_value |-> ans[k]]>>
             \o AnswersToInsert(rid, ans, keys \ {k})

\* .eq('survey_id', surveyId).order('order_index')
RECURSIVE OrderBy(_)
OrderBy(rows) ==
    IF rows = <<>> THEN <<>>
    ELSE LET i == CHOOSE i \in DOMAIN rows :
                      \A j \in DOMAIN rows :
                          \/ rows[i].order_index < rows[j].order_index
                          \/ rows[i].order_index = rows[j].order_index /\ i <= j
         IN  <<rows[i]>> \o OrderBy(SubSeq(rows, 1, i - 1) \o SubSeq(rows, i + 1, Len(rows)))

SelectQuestions(sid) ==
    OrderBy(SelectSeq(questions, LAMBDA q : q.survey_id = sid))

SurveyExists(sid) == \E i \in DOMAIN surveys : surveys[i].id = sid

\* .from('responses').select('id').eq('survey_id', ..).eq('user_id', ..)
ExistingResponse(sid, u) ==
    \E i \in DOMAIN responses :
        responses[i].survey_id = sid /\ responses[i].user_id = u

SetTake(f, t) == take' = [take EXCEPT ![f] = t]

\* Dashboard: onTakeSurvey -> setView({type: 'take'}) mounts the component.
OpenTake(f) ==
    /\ ~take[f].mounted
    /\ take[f].user # NoUser
    /\ SetTake(f, TakeMounted(take[f].user))
    /\ DbUnchanged /\ UNCHANGED OtherThanTake

\* onBack -> setView({type: 'list'}) unmounts the component; taken when no
\* request of the form is in flight.
TakeBack(f) ==
    /\ View(take[f]) \in {"form", "alreadySubmitted"}
    /\ take[f].pc = "idle"
    /\ SetTake(f, TakeUnmounted(take[f].user))
    /\ DbUnchanged /\ UNCHANGED OtherThanTake

\* loadSurvey up to its first await resolving: the surveys select.
LoadSurvey(f) ==
    LET t == take[f]
    IN  /\ t.mounted /\ t.pc = "loadSurvey"
        /\ \/ SetTake(f, [t EXCEPT !.error = DbError, !.loading = FALSE, !.pc = "idle"])
           \/ SetTake(f, [t EXCEPT !.error = NotFoundError, !.loading = FALSE,
                                   !.pc = "idle"])
           \/ /\ SurveyExists(SurveyId)
              /\ SetTake(f, [t EXCEPT !.survey = SurveyId, !.pc = "loadQuestions"])
        /\ DbUnchanged /\ UNCHANGED OtherThanTake

\* The questions select.
LoadQuestions(f) ==
    LET t == take[f]
    IN  /\ t.mounted /\ t.pc = "loadQuestions"
        /\ \/ SetTake(f, [t EXCEPT !.error = DbError, !.loading = FALSE, !.pc = "idle"])
           \/ SetTake(f, [t EXCEPT !.questions = SelectQuestions(SurveyId),
                                   !.pc = "loadExisting"])
        /\ DbUnchanged /\ UNCHANGED OtherThanTake

\* The select of the user's existing response; its error is not read.
LoadExisting(f) ==
    LET t == take[f]
    IN  /\ t.mounted /\ t.pc = "loadExisting"
        /\ \/ SetTake(f, [t EXCEPT !.loading = FALSE, !.pc = "idle"])
           \/ SetTake(f, [t EXCEPT
                  !.alreadySubmitted = ExistingResponse(SurveyId, t.user),
                  !.loading = FALSE, !.pc = "idle"])
        /\ DbUnchanged /\ UNCHANGED OtherThanTake

\* A textarea or a radio input changes.  The handler of a submit works on the
\* answers of the render it was called from, so an edit made while its requests
\* are in flight has the effect of the same edit made when it has returned: the
\* model takes the edits then.
AnswerChange(f) ==
    LET t == take[f]
    IN  /\ View(t) = "form"
        /\ ~t.submitting
        /\ \E q \in Range(t.questions) :
             /\ q.question_type # "multiple_choice"
             /\ \E v \in IF q.question_type = "text" THEN TextValues
                         ELSE Range(q.options) :
                  SetTake(f, [t EXCEPT !.answers = handleAnswerChange(@, q.id, Str(v))])
        /\ DbUnchanged /\ UNCHANGED OtherThanTake

\* A checkbox is clicked: e.target.checked is the opposite of what is shown.
CheckboxChange(f) ==
    LET t == take[f]
    IN  /\ View(t) = "form"
        /\ ~t.submitting
        /\ \E q \in Range(t.questions) :
             /\ q.question_type = "multiple_choice"
             /\ \E o \in Range(q.options) :
                  SetTake(f, [t EXCEPT !.answers =
                      handleCheckboxChange(@, q.id, o, ~Checked(@, q.id, o))])
        /\ DbUnchanged /\ UNCHANGED OtherThanTake

\* handleSubmit up to the responses insert being sent.
SubmitStart(t) ==
    LET unmet == Unmet(t.questions, t.answers)
    IN  IF unmet # {}
        THEN [t EXCEPT !.error = RequiredError(t.questions[Min(unmet)].question_text)]
        ELSE [t EXCEPT !.error = NoError, !.submitting = TRUE,
                       !.pc = "insertResponse", !.response = 0]

\* The submit button is disabled while submitting.
HandleSubmit(f) ==
    /\ View(take[f]) = "form"
    /\ ~take[f].submitting
    /\ SetTake(f, SubmitStart(take[f]))
    /\ DbUnchanged /\ UNCHANGED OtherThanTake

\* catch: setError(err.message); finally: setSubmitting(false).
SubmitFailedRetry(t, err) == [t EXCEPT !.error = err]
SubmitFailed(t, err) ==
    [t EXCEPT !.error = err, !.submitting = FALSE, !.pc = "idle"]

\* The Data Store answers the responses insert.
InsertResponse(f) ==
    LET t == take[f]
        id == NewId(responses)
    IN  /\ t.pc = "insertResponse"
        /\ \/ /\ SetTake(f, SubmitFailed(t, DbError))
              /\ UNCHANGED responses
           \/ /\ UniqueViolation(responses, SurveyId, t.user)
              /\ SetTake(f, SubmitFailed(t, DuplicateError))
              /\ UNCHANGED responses
           \/ /\ ~UniqueViolation(responses, SurveyId, t.user)
              /\ responses' = Append(responses,
                     [id |-> id, survey_id |-> SurveyId, user_id |-> t.user,
                      created_at |-> id])
              /\ SetTake(f, [t EXCEPT !.response = id, !.pc = "insertAnswers"])
        /\ UNCHANGED <<surveys, questions, answers>> /\ UNCHANGED OtherThanTake

\* The Data Store answers the answers insert; onSuccess unmounts the form.
InsertAnswers(f) ==
    LET t == take[f]
    IN  /\ t.pc = "insertAnswers"
        /\ \/ /\ SetTake(f, SubmitFailed(t, DbError))
              /\ UNCHANGED answers
           \/ /\ answers' = answers \o
                     AnswersToInsert(t.response, t.answers, DOMAIN t.answers)
              /\ SetTake(f, TakeUnmounted(t.user))
        /\ UNCHANGED <<surveys, questions, responses>> /\ UNCHANGED OtherThanTake

----------------------------------------------------------------------------
(* CreateSurvey *)

TitleInputs == {"", " ", "T"}
QuestionTextInputs == {"", "Q"}
OptionInputs == {"", "A"}

\* String.prototype.trim on the inputs above.
trim(str) == IF str = " " THEN "" ELSE str

\* `saving` is the questions array that the handleSave in flight closed over.
\* Its question objects and their options arrays are JavaScript objects that
\* the draft may still hold: a draft question whose `obj` is k is the very
\* object saving[k], and one whose `arr` is k holds the very options array of
\* saving[k] (0: shared with no question of the save in flight).
CreateUnmounted ==
    [mounted |-> FALSE, pc |-> "idle", title |-> "", questions |-> <<>>,
     loading |-> FALSE, error |-> NoError, survey |-> 0, saving |-> <<>>,
     edits |-> 0]

\* useState initial values.
CreateMounted == [CreateUnmounted EXCEPT !.mounted = TRUE]

\* A new object with a new options array.
addQuestion(qs, type) ==
    Append(qs, [question_text |-> "", question_type |-> type,
                options |-> IF type = "text" THEN <<>> ELSE <<"">>,
                is_required |-> TRUE, order_index |-> Len(qs),
                obj |-> 0, arr |-> 0])

\* newQuestions[index] = {...newQuestions[index], [field]: value}: a new object
\* that holds the options array of the old one.
updateQuestionText(qs, index, value) ==
    [qs EXCEPT ![index].question_text = value, ![index].obj = 0]

updateQuestionRequired(qs, index, value) ==
    [qs EXCEPT ![index].is_required = value, ![index].obj = 0]

\* newQuestions[questionIndex].options.push(''), on the array itself.
addOption(qs, questionIndex) ==
    [qs EXCEPT ![questionIndex].options = Append(@, "")]

\* newQuestions[questionIndex].options[optionIndex] = value, on the array itself.
updateOption(qs, questionIndex, optionIndex, value) ==
    [qs EXCEPT ![questionIndex].options[optionIndex] = value]

\* splice(optionIndex, 1), on the array itself.
removeOption(qs, questionIndex, optionIndex) ==
    [qs EXCEPT ![questionIndex].options =
        SubSeq(@, 1, optionIndex - 1) \o SubSeq(@, optionIndex + 1, Len(@))]

\* filter, then q.order_index = i on the question objects themselves.
removeQuestion(qs, index) ==
    LET newQuestions == SubSeq(qs, 1, index - 1) \o SubSeq(qs, index + 1, Len(qs))
    IN  [i \in DOMAIN newQuestions |->
            [newQuestions[i] EXCEPT !.order_index = i - 1]]

\* What the handleSave in flight sees after the draft became qs: an object or
\* an array it shares with the draft has the contents the draft gave it.
Sync(saving, qs) ==
    [k \in DOMAIN saving |->
        LET byArr == {j \in DOMAIN qs : qs[j].arr = k}
            byObj == {j \in DOMAIN qs : qs[j].obj = k}
        IN  [saving[k] EXCEPT
                !.options = IF byArr = {} THEN @
                            ELSE qs[CHOOSE j \in byArr : TRUE].options,
                !.order_index = IF byObj = {} THEN @
                                ELSE qs[CHOOSE j \in byObj : TRUE].order_index]]

\* setQuestions(newQuestions); `edits` counts the edits of one round trip.
Edited(c, qs) ==
    [c EXCEPT !.questions = qs, !.saving = Sync(@, qs),
              !.edits = IF c.loading THEN @ + 1 ELSE 0]

\* The inputs and buttons of the questions stay enabled while loading.
CanEdit(c) == c.mounted /\ (c.loading => c.edits < MaxEditsInFlight)

WithIdentity(qs) == [i \in DOMAIN qs |-> [qs[i] EXCEPT !.obj = i, !.arr = i]]

NoIdentity(qs) == [i \in DOMAIN qs |-> [qs[i] EXCEPT !.obj = 0, !.arr = 0]]

\* The checks of handleSave, in their order; NoError when all pass.
SaveError(title, qs) ==
    LET bad == {i \in DOMAIN qs :
                   \/ trim(qs[i].question_text) = ""
                   \/ qs[i].question_type # "text" /\ Len(qs[i].options) < 2}
    IN  IF trim(title) = "" THEN [kind |-> "title", text |-> ""]
        ELSE IF Len(qs) = 0 THEN [kind |-> "noQuestions", text |-> ""]
        ELSE IF bad = {} THEN NoError
        ELSE IF trim(qs[Min(bad)].question_text) = ""
             THEN [kind |-> "questionText", text |-> QText(Min(bad))]
             ELSE [kind |-> "options", text |-> QText(Min(bad))]

\* handleSave up to the surveys insert being sent.
SaveStartNoFlag(c) ==
    IF SaveError(c.title, c.questions) # NoError
    THEN [c EXCEPT !.error = SaveError(c.title, c.questions)]
    ELSE [c EXCEPT !.error = NoError, !.pc = "insertSurvey",
                   !.survey = 0, !.questions = WithIdentity(@),
                   !.saving = WithIdentity(c.questions), !.edits = 0]
SaveStart(c) ==
    IF SaveError(c.title, c.questions) # NoError
    THEN [c EXCEPT !.error = SaveError(c.title, c.questions)]
    ELSE [c EXCEPT !.loading = TRUE, !.error = NoError, !.pc = "insertSurvey",
                   !.survey = 0, !.questions = WithIdentity(@),
                   !.saving = WithIdentity(c.questions), !.edits = 0]

\* catch: setError(err.message); finally: setLoading(false).
SaveFailed(c) ==
    [c EXCEPT !.error = DbError, !.loading = FALSE, !.pc = "idle",
              !.questions = NoIdentity(@), !.saving = <<>>, !.edits = 0]

\* questions.map((q) => ({survey_id: survey.id, ...}))
QuestionsToInsert(sid, qs, base) ==
    [i \in DOMAIN qs |->
        [id |-> base + i, survey_id |-> sid,
         question_text |-> qs[i].question_text,
         question_type |-> qs[i].question_type, options |-> qs[i].options,
         is_required |-> qs[i].is_required, order_index |-> qs[i].order_index]]

\* The title that handleSave inserts was read when the request was sent: an
\* edit of the title during the round trip changes nothing of the save and is
\* taken after it.
EditTitle ==
    /\ create.mounted /\ ~create.loading
    /\ \E v \in TitleInputs : create' = [create EXCEPT !.title = v]
    /\ DbUnchanged /\ UNCHANGED OtherThanCreate

AddQuestion ==
    /\ CanEdit(create)
    /\ Len(create.questions) < MaxQuestions
    /\ \E type \in QuestionTypes :
         create' = Edited(create, addQuestion(create.questions, type))
    /\ DbUnchanged /\ UNCHANGED OtherThanCreate

UpdateQuestion ==
    /\ CanEdit(create)
    /\ \E i \in DOMAIN create.questions :
         \/ \E v \in QuestionTextInputs :
              create' = Edited(create, updateQuestionText(create.questions, i, v))
         \/ create' = Edited(create,
                updateQuestionRequired(create.questions, i,
                                       ~create.questions[i].is_required))
    /\ DbUnchanged /\ UNCHANGED OtherThanCreate

AddOption ==
    /\ CanEdit(create)
    /\ \E i \in DOMAIN create.questions :
         /\ create.questions[i].question_type # "text"
         /\ Len(create.questions[i].options) < MaxOptions
         /\ create' = Edited(create, addOption(create.questions, i))
    /\ DbUnchanged /\ UNCHANGED OtherThanCreate

UpdateOption ==
    /\ CanEdit(create)
    /\ \E i \in DOMAIN create.questions :
         /\ create.questions[i].question_type # "text"
         /\ \E j \in DOMAIN create.questions[i].options, v \in OptionInputs :
              create' = Edited(create, updateOption(create.questions, i, j, v))
    /\ DbUnchanged /\ UNCHANGED OtherThanCreate

\* The remove button of an option is shown when options.length > 1.
RemoveOption ==
    /\ CanEdit(create)
    /\ \E i \in DOMAIN create.questions :
         /\ create.questions[i].question_type # "text"
         /\ Len(create.questions[i].options) > 1
         /\ \E j \in DOMAIN create.questions[i].options :
              create' = Edited(create, removeOption(create.questions, i, j))
    /\ DbUnchanged /\ UNCHANGED OtherThanCreate

RemoveQuestion ==
    /\ CanEdit(create)
    /\ \E i \in DOMAIN create.questions :
         create' = Edited(create, removeQuestion(create.questions, i))
    /\ DbUnchanged /\ UNCHANGED OtherThanCreate

\* The save button is disabled while loading.
HandleSave ==
    /\ create.mounted /\ ~create.loading
    /\ create' = SaveStart(create)
    /\ DbUnchanged /\ UNCHANGED OtherThanCreate

\* The Data Store answers the surveys insert.  handleSave then reads the
\* questions it closed over and sends them: from here on `saving` is the
\* request that was sent, which no edit changes.
InsertSurvey ==
    LET id == NewId(surveys)
    IN  /\ create.pc = "insertSurvey"
        /\ \/ /\ create' = SaveFailed(create)
              /\ UNCHANGED surveys
           \/ /\ Len(surveys) < MaxSurveys
              /\ surveys' = Append(surveys,
                     [id |-> id, title |-> create.title, creator_id |-> "u1"])
              /\ create' = [create EXCEPT !.survey = id, !.pc = "insertQuestions",
                                           !.questions = NoIdentity(@)]
        /\ UNCHANGED <<questions, responses, answers>> /\ UNCHANGED OtherThanCreate

\* The Data Store answers the questions insert; onSuccess unmounts the form.
InsertQuestions ==
    /\ create.pc = "insertQuestions"
    /\ \/ /\ create' = SaveFailed(create)
          /\ UNCHANGED questions
       \/ /\ questions' = questions \o
                 QuestionsToInsert(create.survey, create.saving, Len(questions))
          /\ create' = CreateUnmounted
    /\ UNCHANGED <<surveys, responses, answers>> /\ UNCHANGED OtherThanCreate

\* onBack -> setView({type: 'list'}) unmounts the form.
CreateBack ==
    /\ create.mounted /\ create.pc = "idle"
    /\ create' = CreateUnmounted
    /\ DbUnchanged /\ UNCHANGED OtherThanCreate

----------------------------------------------------------------------------
(* SurveyResults *)

ResultsUnmounted ==
    [mounted |-> FALSE, pc |-> "idle", survey |-> 0, stats |-> <<>>,
     loading |-> TRUE, totalResponses |-> 0, responsesData |-> <<>>,
     questionsData |-> <<>>]

\* useState initial values, then useEffect -> loadResults().
ResultsMounted ==
    [ResultsUnmounted EXCEPT !.mounted = TRUE, !.pc = "loadSurvey"]

\* stats.answers = {}
NoCounts == [k \in {} |-> 0]

\* stats.answers[v] = (stats.answers[v] || 0) + 1
Increment(counts, v) ==
    [k \in DOMAIN counts \cup {v} |->
        IF k = v THEN (IF v \in DOMAIN counts THEN counts[v] ELSE 0) + 1
        ELSE counts[k]]

\* value.forEach((v) => ...)
RECURSIVE IncrementEach(_, _)
IncrementEach(counts, l) ==
    IF l = <<>> THEN counts
    ELSE IncrementEach(Increment(counts, Head(l)), Tail(l))

\* questionAnswers.forEach((answer) => ...)
RECURSIVE Tally(_, _)
Tally(counts, questionAnswers) ==
    IF questionAnswers = <<>> THEN counts
    ELSE LET value == Head(questionAnswers).answer_value
         IN  Tally(IF isArray(value) THEN IncrementEach(counts, value.l)
                   ELSE Increment(counts, value.s),
                   Tail(questionAnswers))

\* answersData.filter((a) => a.question_id === question.id)
QuestionAnswers(question, answersData) ==
    SelectSeq(answersData, LAMBDA a : a.question_id = question.id)

\* questionAnswers.map((a) => a.answer_value as string): the cast changes no
\* value.
TextAnswersNonEmpty(questionAnswers) ==
    LET kept == SelectSeq(questionAnswers, LAMBDA a : a.answer_value # Str(""))
    IN  [i \in DOMAIN kept |-> kept[i].answer_value]
TextAnswers(questionAnswers) ==
    [i \in DOMAIN questionAnswers |-> questionAnswers[i].answer_value]

\* The body of (questionsData || []).map((question) => ...)
QuestionStats(question, answersData) ==
    LET questionAnswers == QuestionAnswers(question, answersData)
    IN  [question |-> question,
         totalResponses |-> Len(questionAnswers),
         answers |-> IF question.question_type = "text" THEN NoCounts
                     ELSE Tally(NoCounts, questionAnswers),
         textAnswers |-> IF question.question_type = "text"
                         THEN TextAnswers(questionAnswers)
                         ELSE <<>>]

\* Math.round((count / total) * 100): the nearest integer, a half rounded up.
\* The floating-point result is this one for every total below 40; from there
\* on a product that should be an exact half may fall just below it and round
\* down (23 of 40 gives 57).
getPercentageFloor(count, total) ==
    IF total = 0 THEN 0 ELSE (100 * count) \div total
getPercentage(count, total) ==
    IF total = 0 THEN 0 ELSE (200 * count + total) \div (2 * total)

\* stat.answers[option] || 0
CountOfRest(stat, option) ==
    IF option \in DOMAIN stat.answers THEN stat.answers[option]
    ELSE Cardinality(DOMAIN stat.answers \ Range(stat.question.options))
CountOf(stat, option) ==
    IF option \in DOMAIN stat.answers THEN stat.answers[option] ELSE 0

\* What stat.question.options.map((option) => ...) renders: one bar per option.
OptionBarsObserved(stat) ==
    LET opts == SelectSeq(stat.question.options,
                          LAMBDA o : o \in DOMAIN stat.answers)
    IN  [i \in DOMAIN opts |->
            [option |-> opts[i], count |-> CountOf(stat, opts[i]),
             percentage |-> getPercentage(CountOf(stat, opts[i]),
                                          stat.totalResponses)]]
OptionBars(stat) ==
    [i \in DOMAIN stat.question.options |->
        LET option == stat.question.options[i]
        IN  [option |-> option, count |-> CountOf(stat, option),
             percentage |-> getPercentage(CountOf(stat, option),
                                          stat.totalResponses)]]

\* The early returns of the render function.
ResultsView(r) ==
    IF ~r.mounted THEN "unmounted"
    ELSE IF r.loading THEN "loading"
    ELSE IF r.survey = 0 THEN "notFound"
    ELSE "results"

\* What the render function puts on the screen: the panel, and in the results
\* panel the number of participants and the statistics of the questions.
Rendered(r) ==
    IF ResultsView(r) = "results"
    THEN [view |-> "results", totalResponses |-> r.totalResponses,
          stats |-> r.stats]
    ELSE [view |-> ResultsView(r), totalResponses |-> 0, stats |-> <<>>]

\* catch: console.error; finally: setLoading(false).
ResultsFailedNoFinally(r) == [r EXCEPT !.pc = "failed"]
ResultsFailed(r) == [r EXCEPT !.loading = FALSE, !.pc = "failed"]

\* if (!surveyData) throw new Error(...): caught as a failure is.
ResultsNotFound(r) == [r EXCEPT !.loading = FALSE, !.pc = "notFound"]

\* Dashboard: onViewResults -> setView({type: 'results'}) mounts the view.
OpenResults ==
    /\ ~results.mounted
    /\ results' = ResultsMounted
    /\ DbUnchanged /\ UNCHANGED OtherThanResults

\* loadResults up to its first await resolving: the surveys select.
\* maybeSingle gives null for zero rows: no such survey, or a policy hides it.
ResultsLoadSurvey ==
    /\ results.pc = "loadSurvey"
    /\ \/ results' = ResultsFailed(results)
       \/ results' = ResultsNotFound(results)
       \/ /\ SurveyExists(SurveyId)
          /\ results' = [results EXCEPT !.survey = SurveyId, !.pc = "loadResponses"]
    /\ DbUnchanged /\ UNCHANGED OtherThanResults

\* The responses select.
ResultsLoadResponses ==
    /\ results.pc = "loadResponses"
    /\ \/ results' = ResultsFailed(results)
       \/ LET responsesData ==
                  SelectSeq(responses, LAMBDA r : r.survey_id = SurveyId)
          IN  results' = [results EXCEPT !.responsesData = responsesData,
                                         !.totalResponses = Len(responsesData),
                                         !.pc = "loadQuestions"]
    /\ DbUnchanged /\ UNCHANGED OtherThanResults

\* The questions select.
ResultsLoadQuestions ==
    /\ results.pc = "loadQuestions"
    /\ \/ results' = ResultsFailed(results)
       \/ results' = [results EXCEPT !.questionsData = SelectQuestions(SurveyId),
                                     !.pc = "loadAnswers"]
    /\ DbUnchanged /\ UNCHANGED OtherThanResults

\* The answers select, then the aggregation.
ResultsLoadAnswers ==
    /\ results.pc = "loadAnswers"
    /\ \/ results' = ResultsFailed(results)
       \/ LET ids == {results.responsesData[i].id :
                          i \in DOMAIN results.responsesData}
              answersData == SelectSeq(answers, LAMBDA a : a.response_id \in ids)
          IN  results' = [results EXCEPT
                  !.stats = [i \in DOMAIN results.questionsData |->
                                QuestionStats(results.questionsData[i], answersData)],
                  !.loading = FALSE, !.pc = "done"]
    /\ DbUnchanged /\ UNCHANGED OtherThanResults

\* onBack -> setView({type: 'list'}) unmounts the view.
ResultsBack ==
    /\ ResultsView(results) = "results"
    /\ results.pc \in {"done", "failed"}
    /\ results' = ResultsUnmounted
    /\ DbUnchanged /\ UNCHANGED OtherThanResults

----------------------------------------------------------------------------
(* UserResponseComparison *)

CompareUnmounted ==
    [mounted |-> FALSE, pc |-> "idle", userId |-> NoUser, survey |-> 0,
     questions |-> <<>>, responses |-> <<>>, answers |-> <<>>,
     selectedResponses |-> <<>>, loading |-> TRUE]

\* useState initial values, then useEffect -> loadComparisonData().
CompareMounted(userId) ==
    [CompareUnmounted EXCEPT !.mounted = TRUE, !.userId = userId,
                             !.pc = "loadSurvey"]

\* .order('created_at', {ascending: false})
RECURSIVE OrderNewestFirst(_)
OrderNewestFirst(rows) ==
    IF rows = <<>> THEN <<>>
    ELSE LET i == CHOOSE i \in DOMAIN rows :
                      \A j \in DOMAIN rows :
                          \/ rows[i].created_at > rows[j].created_at
                          \/ rows[i].created_at = rows[j].created_at /\ i <= j
         IN  <<rows[i]>> \o OrderNewestFirst(SubSeq(rows, 1, i - 1)
                                             \o SubSeq(rows, i + 1, Len(rows)))

\* .from('responses').eq('user_id', userId).eq('survey_id', surveyId)
SelectResponses(userId, sid) ==
    OrderNewestFirst(SelectSeq(responses,
        LAMBDA r : r.user_id = userId /\ r.survey_id = sid))

\* The selection after the responses select: setSelectedResponses is called
\* when there are two responses or more, or one, and not when there is none.
DefaultSelectionOldest(responsesData, selected) ==
    IF Len(responsesData) >= 2
    THEN <<responsesData[Len(responsesData)].id,
           responsesData[Len(responsesData) - 1].id>>
    ELSE IF Len(responsesData) = 1 THEN <<responsesData[1].id>>
    ELSE selected
DefaultSelection(responsesData, selected) ==
    IF Len(responsesData) >= 2
    THEN <<responsesData[1].id, responsesData[2].id>>
    ELSE IF Len(responsesData) = 1 THEN <<responsesData[1].id>>
    ELSE selected

toggleResponseSelectionNoCap(selectedResponses, responseId) ==
    IF responseId \in Range(selectedResponses)
    THEN SelectSeq(selectedResponses, LAMBDA id : id # responseId)
    ELSE Append(selectedResponses, responseId)
toggleResponseSelection(selectedResponses, responseId) ==
    IF responseId \in Range(selectedResponses)
    THEN SelectSeq(selectedResponses, LAMBDA id : id # responseId)
    ELSE IF Len(selectedResponses) < 3
         THEN Append(selectedResponses, responseId)
         ELSE selectedResponses

NoAnswer == [response_id |-> 0, question_id |-> 0, answer_value |-> NoValue]

\* answers.find(a => a.response_id === responseId && a.question_id === questionId)
getAnswerForQuestionOnly(rows, responseId, questionId) ==
    LET found == {i \in DOMAIN rows : rows[i].question_id = questionId}
    IN  IF found = {} THEN NoAnswer ELSE rows[Min(found)]
getAnswerForQuestion(rows, responseId, questionId) ==
    LET found == {i \in DOMAIN rows :
                     /\ rows[i].response_id = responseId
                     /\ rows[i].question_id = questionId}
    IN  IF found = {} THEN NoAnswer ELSE rows[Min(found)]

\* Array.prototype.join(', ')
RECURSIVE join(_)
join(l) ==
    IF l = <<>> THEN ""
    ELSE IF Len(l) = 1 THEN l[1]
    ELSE l[1] \o ", " \o join(Tail(l))

Unanswered == [kind |-> "unanswered", text |-> ""]

\* answer ? (Array.isArray(answer.answer_value) ? answer.answer_value.join(', ')
\*                                              : answer.answer_value) : '...'
Cell(answer) ==
    IF answer = NoAnswer THEN Unanswered
    ELSE [kind |-> "value",
          text |-> IF isArray(answer.answer_value)
                   THEN join(answer.answer_value.l)
                   ELSE answer.answer_value.s]

\* The early returns of the render function.
CompareViewBySelection(c) ==
    IF ~c.mounted THEN "unmounted"
    ELSE IF c.loading THEN "loading"
    ELSE IF c.survey = 0 THEN "notFound"
    ELSE IF c.selectedResponses = <<>> THEN "cannotCompare"
    ELSE "comparison"
CompareView(c) ==
    IF ~c.mounted THEN "unmounted"
    ELSE IF c.loading THEN "loading"
    ELSE IF c.survey = 0 THEN "notFound"
    ELSE IF Len(c.responses) < 2 THEN "cannotCompare"
    ELSE "comparison"

\* {selectedResponses.length > 0 && (<table> ...)}
TableShown(c) == CompareView(c) = "comparison" /\ c.selectedResponses # <<>>

\* The body of the table: one row per question, one cell per selected response.
Table(c) ==
    [q \in DOMAIN c.questions |->
        [k \in DOMAIN c.selectedResponses |->
            Cell(getAnswerForQuestion(c.answers, c.selectedResponses[k],
                                      c.questions[q].id))]]

\* catch: console.error; finally: setLoading(false).
CompareFailed(c) == [c EXCEPT !.loading = FALSE, !.pc = "failed"]

OpenCompare ==
    /\ ~compare.mounted
    /\ \E u \in Users : compare' = CompareMounted(u)
    /\ DbUnchanged /\ UNCHANGED OtherThanCompare

\* loadComparisonData up to its first await resolving: the surveys select.
\* maybeSingle gives null for zero rows (no such survey, or a policy hides it),
\* and the load goes on.
CompareLoadSurvey ==
    /\ compare.pc = "loadSurvey"
    /\ \/ compare' = CompareFailed(compare)
       \/ compare' = [compare EXCEPT !.survey = 0, !.pc = "loadQuestions"]
       \/ /\ SurveyExists(SurveyId)
          /\ compare' = [compare EXCEPT !.survey = SurveyId, !.pc = "loadQuestions"]
    /\ DbUnchanged /\ UNCHANGED OtherThanCompare

\* The questions select.
CompareLoadQuestions ==
    /\ compare.pc = "loadQuestions"
    /\ \/ compare' = CompareFailed(compare)
       \/ compare' = [compare EXCEPT !.questions = SelectQuestions(SurveyId),
                                     !.pc = "loadResponses"]
    /\ DbUnchanged /\ UNCHANGED OtherThanCompare

\* The responses select, then the default selection.
CompareLoadResponses ==
    /\ compare.pc = "loadResponses"
    /\ \/ compare' = CompareFailed(compare)
       \/ LET responsesData == SelectResponses(compare.userId, SurveyId)
          IN  compare' = [compare EXCEPT
                  !.responses = responsesData,
                  !.selectedResponses = DefaultSelection(responsesData, @),
                  !.pc = "loadAnswers"]
    /\ DbUnchanged /\ UNCHANGED OtherThanCompare

\* The answers select.
CompareLoadAnswers ==
    /\ compare.pc = "loadAnswers"
    /\ \/ compare' = CompareFailed(compare)
       \/ LET ids == {compare.responses[i].id : i \in DOMAIN compare.responses}
          IN  compare' = [compare EXCEPT
                  !.answers = SelectSeq(answers, LAMBDA a : a.response_id \in ids),
                  !.loading = FALSE, !.pc = "done"]
    /\ DbUnchanged /\ UNCHANGED OtherThanCompare

\* A checkbox of the list of responses is clicked.
ToggleResponse ==
    /\ CompareView(compare) = "comparison"
    /\ \E i \in DOMAIN compare.responses :
         compare' = [compare EXCEPT !.selectedResponses =
                        toggleResponseSelection(@, compare.responses[i].id)]
    /\ DbUnchanged /\ UNCHANGED OtherThanCompare

\* The back button, which the not-found panel does not have.
CompareBack ==
    /\ CompareView(compare) \in {"cannotCompare", "comparison"}
    /\ compare' = CompareUnmounted
    /\ DbUnchanged /\ UNCHANGED OtherThanCompare

----------------------------------------------------------------------------
(* UserResponseDetail *)

DetailUnmounted ==
    [mounted |-> FALSE, pc |-> "idle", responseId |-> 0, surveyId |-> 0,
     survey |-> 0, questions |-> <<>>, answers |-> <<>>, loading |-> TRUE]

\* useState initial values, then useEffect -> loadResponseDetails().
DetailMounted(responseId) ==
    [DetailUnmounted EXCEPT !.mounted = TRUE, !.responseId = responseId,
                            !.pc = "loadResponse"]

\* The early returns of the render function.
DetailView(d) ==
    IF ~d.mounted THEN "unmounted"
    ELSE IF d.loading THEN "loading"
    ELSE IF d.survey = 0 THEN "notFound"
    ELSE "detail"

\* catch: console.error; finally: setLoading(false).
DetailFailed(d) == [d EXCEPT !.loading = FALSE, !.pc = "failed"]

\* if (!responseData) throw new Error(...): caught as a failure is.
DetailNotFound(d) == [d EXCEPT !.loading = FALSE, !.pc = "notFound"]

\* The responseId prop: the id of a row of responses, or of none.
OpenDetail ==
    /\ ~detail.mounted
    /\ \E id \in 1..(Len(responses) + 1) : detail' = DetailMounted(id)
    /\ DbUnchanged /\ UNCHANGED OtherThanDetail

\* loadResponseDetails up to its first await resolving: the responses select.
DetailLoadResponse ==
    /\ detail.pc = "loadResponse"
    /\ \/ detail' = DetailFailed(detail)
       \/ detail' = DetailNotFound(detail)
       \/ \E i \in DOMAIN responses :
            /\ responses[i].id = detail.responseId
            /\ detail' = [detail EXCEPT !.surveyId = responses[i].survey_id,
                                        !.pc = "loadSurvey"]
    /\ DbUnchanged /\ UNCHANGED OtherThanDetail

\* The surveys select: null for zero rows, and the load goes on.
DetailLoadSurvey ==
    /\ detail.pc = "loadSurvey"
    /\ \/ detail' = DetailFailed(detail)
       \/ detail' = [detail EXCEPT !.survey = 0, !.pc = "loadQuestions"]
       \/ /\ SurveyExists(detail.surveyId)
          /\ detail' = [detail EXCEPT !.survey = detail.surveyId,
                                      !.pc = "loadQuestions"]
    /\ DbUnchanged /\ UNCHANGED OtherThanDetail

\* The questions select.
DetailLoadQuestions ==
    /\ detail.pc = "loadQuestions"
    /\ \/ detail' = DetailFailed(detail)
       \/ detail' = [detail EXCEPT !.questions = SelectQuestions(detail.surveyId),
                                   !.pc = "loadAnswers"]
    /\ DbUnchanged /\ UNCHANGED OtherThanDetail

\* The answers select.
DetailLoadAnswers ==
    /\ detail.pc = "loadAnswers"
    /\ \/ detail' = DetailFailed(detail)
       \/ detail' = [detail EXCEPT
              !.answers = SelectSeq(answers,
                              LAMBDA a : a.response_id = detail.responseId),
              !.loading = FALSE, !.pc = "done"]
    /\ DbUnchanged /\ UNCHANGED OtherThanDetail

\* The back button, which the not-found panel does not have.
DetailBack ==
    /\ DetailView(detail) = "detail"
    /\ detail' = DetailUnmounted
    /\ DbUnchanged /\ UNCHANGED OtherThanDetail

----------------------------------------------------------------------------
(* SurveyList *)

Tabs == {"all", "my"}

\* `requests` are the loadSurveys calls whose select has not been answered,
\* each with the activeTab of the render it was called from; `logged` tells
\* that console.error was called since the component was mounted.
ListUnmounted(u) ==
    [user |-> u, mounted |-> FALSE, activeTab |-> "all", surveys |-> <<>>,
     loading |-> TRUE, requests |-> <<>>, logged |-> FALSE]

\* useState initial values, then useEffect -> loadSurveys().
ListMounted(u) ==
    [ListUnmounted(u) EXCEPT !.mounted = TRUE, !.requests = <<"all">>]

Reverse(rows) == [i \in DOMAIN rows |-> rows[Len(rows) + 1 - i]]

\* select('*').order('created_at', {ascending: false}), with
\* eq('creator_id', user.id) under the tab 'my'.  A row of surveys is created
\* later than the rows before it.
SelectSurveys(tab, u) ==
    Reverse(SelectSeq(surveys, LAMBDA r : tab = "my" => r.creator_id = u))

\* The early returns of the list part of the render function.
ListView(l) ==
    IF ~l.mounted THEN "unmounted"
    ELSE IF l.loading THEN "loading"
    ELSE IF l.surveys = <<>> THEN "empty"
    ELSE "list"

Without(s, i) == [j \in 1..(Len(s) - 1) |-> IF j < i THEN s[j] ELSE s[j + 1]]

\* Dashboard shows the list: view.type === 'list' mounts the component.
OpenList ==
    /\ ~list.mounted
    /\ list' = ListMounted(list.user)
    /\ DbUnchanged /\ UNCHANGED OtherThanList

\* A tab button: setActiveTab(tab).  With the tab that is active already the
\* state does not change and the effect does not run; with the other one the
\* effect calls loadSurveys, which sets loading and sends the select.
SetActiveTab ==
    /\ list.mounted
    /\ Len(list.requests) < MaxListRequests
    /\ \E tab \in Tabs \ {list.activeTab} :
         list' = [list EXCEPT !.activeTab = tab, !.loading = TRUE,
                              !.requests = Append(@, tab)]
    /\ DbUnchanged /\ UNCHANGED OtherThanList

\* The Data Store answers one of the selects in flight.  catch: console.error;
\* finally: setLoading(false).
ListLoaded ==
    /\ list.mounted
    /\ \E i \in DOMAIN list.requests :
         \/ list' = [list EXCEPT !.loading = FALSE, !.requests = Without(@, i),
                                  !.logged = TRUE]
         \/ list' = [list EXCEPT
                !.surveys = SelectSurveys(list.requests[i], list.user),
                !.loading = FALSE, !.requests = Without(@, i)]
    /\ DbUnchanged /\ UNCHANGED OtherThanList

\* onCreateSurvey, onTakeSurvey, onViewResults -> setView(...) unmounts the
\* component; what a select in flight sets afterwards is set on no component.
ListLeave ==
    /\ list.mounted
    /\ list' = ListUnmounted(list.user)
    /\ DbUnchanged /\ UNCHANGED OtherThanList

----------------------------------------------------------------------------
(* The survey the forms are opened on *)

DefaultOptions == <<"A", "B">>

QRow(sid, i, ty, req, opts) ==
    [id |-> i, survey_id |-> sid, question_text |-> QText(i),
     question_type |-> ty, options |-> IF ty = "text" THEN <<>> ELSE opts,
     is_required |-> req, order_index |-> i - 1]

QShapes == QuestionTypes \X BOOLEAN

TakeQuestionLists(max) ==
    UNION {[1..n -> QShapes] : n \in 1..max}

QRows(l) == [i \in DOMAIN l |-> QRow(SurveyId, i, l[i][1], l[i][2], DefaultOptions)]

TheSurvey == [id |-> SurveyId, title |-> "S", creator_id |-> "u1"]


\* Several forms on a survey of one text question: all of one user, or the last
\* one of another user.
Init ==
    /\ surveys = <<TheSurvey>>
    /\ \E l \in TakeQuestionLists(1) : l[1][1] = "text" /\ questions = QRows(l)
    /\ responses = <<>>
    /\ answers = <<>>
    /\ \E u \in Users :
         take = [f \in Forms |-> TakeUnmounted(IF f = NForms THEN u ELSE "u1")]
    /\ create = CreateUnmounted
    /\ results = ResultsUnmounted
    /\ compare = CompareUnmounted
    /\ detail = DetailUnmounted
    /\ list = ListUnmounted("u1")

\* One form on a survey of up to MaxQuestions questions.
InitForm ==
    /\ surveys = <<TheSurvey>>
    /\ \E l \in TakeQuestionLists(MaxQuestions) : questions = QRows(l)
    /\ responses = <<>>
    /\ answers = <<>>
    /\ take = [f \in Forms |-> TakeUnmounted(IF f = 1 THEN "u1" ELSE NoUser)]
    /\ create = CreateUnmounted
    /\ results = ResultsUnmounted
    /\ compare = CompareUnmounted
    /\ detail = DetailUnmounted
    /\ list = ListUnmounted("u1")

\* The steps of a mounted form whose questions have no checkboxes.
FormRun(f) ==
    \/ TakeBack(f)
    \/ LoadSurvey(f)
    \/ LoadQuestions(f)
    \/ LoadExisting(f)
    \/ AnswerChange(f)
    \/ HandleSubmit(f)
    \/ InsertResponse(f)
    \/ InsertAnswers(f)

FormStep(f) == OpenTake(f) \/ FormRun(f)

Next == \E f \in Forms : FormStep(f)

NextForm == \E f \in Forms : FormStep(f) \/ CheckboxChange(f)

Spec == Init /\ [][Next]_vars

SpecForm == InitForm /\ [][NextForm]_vars

----------------------------------------------------------------------------
(* Survey taking: uniqueness of responses *)

SameRespondent(f, g) ==
    f # g /\ take[f].user # NoUser /\ take[f].user = take[g].user

\* C4: after any sequence of submission attempts the responses table holds at
\* most one row per (survey, respondent) pair.
C4_OneResponsePerRespondent ==
    \A i, j \in DOMAIN responses :
        (/\ responses[i].survey_id = responses[j].survey_id
         /\ responses[i].user_id = responses[j].user_id) => i = j

\* A respondent with a response on file tried again and the insert was refused.
C4_Witness ==
    \E f \in Forms :
        /\ take[f].error = DuplicateError
        /\ ExistingResponse(SurveyId, take[f].user)

\* C5: of the handleSubmit flows of one respondent that are in flight together
\* at most one gets a response row back from its insert, and the row it holds
\* is the respondent's only row.
C5_OneInserter ==
    \A f, g \in Forms :
        (SameRespondent(f, g) /\ take[f].response # 0) =>
            /\ take[g].response = 0
            /\ Cardinality({i \in DOMAIN responses :
                               responses[i].user_id = take[f].user}) = 1

\* Two forms of one respondent, both loaded as not yet submitted, are in
\* handleSubmit together; one has inserted and the other's insert is pending.
C5_Witness ==
    \E f, g \in Forms :
        /\ SameRespondent(f, g)
        /\ take[f].pc = "insertAnswers"
        /\ take[g].pc = "insertResponse"
        /\ ~take[g].alreadySubmitted

\* C8: when the Data Store refuses the responses insert on the uniqueness
\* constraint, no answer row is written and the form ends in the
\* already-submitted state.
C8_RejectedIsAlreadySubmitted ==
    [][\A f \in Forms :
          (take[f].pc = "insertResponse" /\ take'[f].error = DuplicateError) =>
              /\ answers' = answers
              /\ take'[f].alreadySubmitted
              /\ View(take'[f]) = "alreadySubmitted"]_vars

----------------------------------------------------------------------------
(* Survey taking: required answers *)

\* A non-empty recorded answer: a non-empty string, or a non-empty list.
HasAnswer(ans, qid) ==
    /\ qid \in DOMAIN ans
    /\ IF ans[qid].kind = "list" THEN ans[qid].l # <<>> ELSE ans[qid].s # ""

MissingRequired(t) ==
    {i \in DOMAIN t.questions :
        t.questions[i].is_required /\ ~HasAnswer(t.answers, t.questions[i].id)}

\* C6: a submission passes the check of handleSubmit only if every required
\* question has a non-empty recorded answer.
C6_RequiredAnswered ==
    \A f \in Forms :
        take[f].pc \in {"insertResponse", "insertAnswers"} =>
            MissingRequired(take[f]) = {}

\* C7: a blocked handleSubmit names the first required question, in display
\* order, that has no answer, and changes neither the Data Store nor the
\* submitting flag nor the recorded answers.
C7_BlockedSubmit ==
    [][\A f \in Forms :
          (take'[f].error.kind = "required" /\ take'[f].error # take[f].error) =>
              /\ MissingRequired(take[f]) # {}
              /\ take'[f].error.text =
                     take[f].questions[Min(MissingRequired(take[f]))].question_text
              /\ UNCHANGED <<surveys, questions, responses, answers>>
              /\ take'[f].submitting = take[f].submitting
              /\ take'[f].answers = take[f].answers]_vars

----------------------------------------------------------------------------
(* Survey taking: a response and its answers *)

AnswerRowsOf(rows, rid) == SelectSeq(rows, LAMBDA a : a.response_id = rid)

\* C10: when handleSubmit has finished, the response row it wrote has one
\* answer row for each question the respondent answered, and at most one per
\* (response, question).
C10_ResponseWithAnswers ==
    [][\A f \in Forms :
          (take[f].pc = "insertAnswers" /\ take'[f].pc # "insertAnswers") =>
              LET rows == AnswerRowsOf(answers', take[f].response)
              IN  /\ \A q \in DOMAIN take[f].answers :
                        \E i \in DOMAIN rows :
                            /\ rows[i].question_id = q
                            /\ rows[i].answer_value = take[f].answers[q]
                  /\ \A i, j \in DOMAIN rows :
                        rows[i].question_id = rows[j].question_id => i = j]_vars

----------------------------------------------------------------------------
(* Survey authoring *)

InitCreate ==
    /\ surveys = <<>>
    /\ questions = <<>>
    /\ responses = <<>>
    /\ answers = <<>>
    /\ take = [f \in Forms |-> TakeUnmounted(NoUser)]
    /\ create = CreateMounted
    /\ results = ResultsUnmounted
    /\ compare = CompareUnmounted
    /\ detail = DetailUnmounted
    /\ list = ListUnmounted("u1")

NextCreate ==
    \/ EditTitle
    \/ AddQuestion
    \/ UpdateQuestion
    \/ AddOption
    \/ UpdateOption
    \/ RemoveOption
    \/ RemoveQuestion
    \/ HandleSave
    \/ InsertSurvey
    \/ InsertQuestions
    \/ CreateBack

SpecCreate == InitCreate /\ [][NextCreate]_vars

\* C9: when handleSave has finished, the Data Store holds the new survey row
\* together with all of its question rows, or neither.
C9_SurveyWithQuestions ==
    [][(create.pc # "idle" /\ create'.pc = "idle") =>
          \/ /\ create.pc = "insertSurvey"
             /\ surveys' = surveys /\ questions' = questions
          \/ /\ create.pc = "insertQuestions"
             /\ SelectSeq(questions', LAMBDA q : q.survey_id = create.survey)
                    = QuestionsToInsert(create.survey, create.saving,
                                        Len(questions))]_vars

\* The first check of handleSave that the draft fails, as the error it sets.
FirstFailingCheck(title, qs) ==
    LET failing == {i \in DOMAIN qs :
                       \/ trim(qs[i].question_text) = ""
                       \/ /\ qs[i].question_type \in {"single_choice", "multiple_choice"}
                          /\ Len(qs[i].options) < 2}
        first == Min(failing)
    IN  IF trim(title) = "" THEN [kind |-> "title", text |-> ""]
        ELSE IF qs = <<>> THEN [kind |-> "noQuestions", text |-> ""]
        ELSE IF failing = {} THEN NoError
        ELSE [kind |-> IF trim(qs[first].question_text) = "" THEN "questionText"
                       ELSE "options",
              text |-> QText(first)]

\* C11: a handleSave on a draft that fails a check sets the error of the first
\* failing check and nothing else (no row inserted, loading not set, the draft
\* kept), a handleSave sends a request only for a draft that passes every
\* check, and so every survey row has a title that is not blank and every
\* choice question row has two options or more.
C11_ValidationBeforeWrite ==
    [][/\ (/\ create'.error # create.error
           /\ create'.error.kind \in {"title", "noQuestions", "questionText", "options"})
          => /\ create'.error = FirstFailingCheck(create.title, create.questions)
             /\ UNCHANGED <<surveys, questions, responses, answers>>
             /\ ~create'.loading /\ create'.pc = "idle" /\ create'.mounted
             /\ create'.title = create.title
             /\ create'.questions = create.questions
       /\ (create.pc = "idle" /\ create'.pc = "insertSurvey")
          => FirstFailingCheck(create.title, create.questions) = NoError
       /\ \A i \in DOMAIN surveys' : trim(surveys'[i].title) # ""
       /\ \A i \in DOMAIN questions' :
            questions'[i].question_type \in {"single_choice", "multiple_choice"}
                => Len(questions'[i].options) >= 2]_vars

----------------------------------------------------------------------------
(* Result aggregation *)

Respondent(i) == <<"u1", "u2", "u3", "u4", "u5">>[i]

\* The option lists CreateSurvey lets through: two options or more, of any
\* labels, equal ones included.
OptionLists == UNION {[1..n -> Labels] : n \in 2..MaxOptions}

NoRepeatSeqs(S) ==
    {l \in UNION {[1..k -> S] : k \in 0..Cardinality(S)} :
        \A i, j \in DOMAIN l : l[i] = l[j] => i = j}

\* The values TakeSurvey records for a question: the text typed, the radio
\* option chosen, the options checked in the order they were checked.
WritableValues(q) ==
    IF q.question_type = "text" THEN {Str(v) : v \in TextValues}
    ELSE IF q.question_type = "single_choice"
         THEN {Str(o) : o \in Range(q.options)}
         ELSE {List(l) : l \in NoRepeatSeqs(Range(q.options))}

RECURSIVE AnswerRows(_, _, _)
AnswerRows(vals, second, i) ==
    IF i > Len(vals) THEN <<>>
    ELSE (IF vals[i] = NoValue THEN <<>>
          ELSE <<[response_id |-> i, question_id |-> 1, answer_value |-> vals[i]]>>)
         \o (IF second
             THEN <<[response_id |-> i, question_id |-> 2, answer_value |-> Str("A")]>>
             ELSE <<>>)
         \o AnswerRows(vals, second, i + 1)

\* A survey of one question of any type, with or without a second question
\* that every respondent answered, and up to MaxRows responses.
InitAgg ==
    /\ surveys = <<TheSurvey>>
    /\ \E ty \in QuestionTypes, opts \in OptionLists, second \in BOOLEAN,
          n \in 0..MaxRows :
         LET q1 == QRow(SurveyId, 1, ty, FALSE, opts)
             q2 == QRow(SurveyId, 2, "single_choice", FALSE, DefaultOptions)
         IN  /\ questions = IF second THEN <<q1, q2>> ELSE <<q1>>
             /\ responses = [i \in 1..n |->
                    [id |-> i, survey_id |-> SurveyId, user_id |-> Respondent(i),
                     created_at |-> i]]
             /\ \E vals \in [1..n -> WritableValues(q1) \cup {NoValue}] :
                  answers = AnswerRows(vals, second, 1)
    /\ take = [f \in Forms |-> TakeUnmounted(NoUser)]
    /\ create = CreateUnmounted
    /\ results = ResultsUnmounted
    /\ compare = CompareUnmounted
    /\ detail = DetailUnmounted
    /\ list = ListUnmounted("u1")

ResultsRun ==
    \/ ResultsLoadSurvey
    \/ ResultsLoadResponses
    \/ ResultsLoadQuestions
    \/ ResultsLoadAnswers
    \/ ResultsBack

NextAgg == OpenResults \/ ResultsRun

SpecAgg == InitAgg /\ [][NextAgg]_vars

IsChoice(q) == q.question_type \in {"single_choice", "multiple_choice"}

\* The answers to question q in the Data Store that select option o.
Selecting(q, o) ==
    {i \in DOMAIN answers :
        /\ answers[i].question_id = q.id
        /\ \/ answers[i].answer_value = Str(o)
           \/ answers[i].answer_value.kind = "list"
              /\ o \in Range(answers[i].answer_value.l)}

C2_SingleChoiceSum ==
    results.pc = "done" =>
        \A k \in DOMAIN results.stats :
            LET stat == results.stats[k]
                bars == OptionBars(stat)
            IN  stat.question.question_type = "single_choice" =>
                    SeqSum([i \in DOMAIN bars |-> bars[i].count])
                        = stat.totalResponses

Abs(x) == IF x < 0 THEN -x ELSE x

\* C3: every percentage shown is 0 when the question has no answers and is
\* otherwise the integer nearest to count / total x 100; options [A, B] with
\* answers [A, A, B] are shown as A: 2 (67%), B: 1 (33%), total 3.
C3_Percentage ==
    /\ \A count, total \in 0..MaxCount :
         /\ getPercentage(count, 0) = 0
         /\ total > 0 =>
              2 * Abs(100 * count - getPercentage(count, total) * total) <= total
    /\ results.pc = "done" =>
        \A k \in DOMAIN results.stats :
            LET stat == results.stats[k]
                bars == OptionBars(stat)
            IN  IsChoice(stat.question) =>
                  /\ \A i \in DOMAIN bars :
                       /\ bars[i].percentage \in Nat
                       /\ stat.totalResponses = 0 => bars[i].percentage = 0
                       /\ stat.totalResponses > 0 =>
                            2 * Abs(100 * bars[i].count
                                    - bars[i].percentage * stat.totalResponses)
                                <= stat.totalResponses
                  /\ (/\ stat.question.question_type = "single_choice"
                      /\ stat.question.options = <<"A", "B">>
                      /\ [i \in DOMAIN QuestionAnswers(stat.question, answers) |->
                             QuestionAnswers(stat.question, answers)[i].answer_value]
                           = <<Str("A"), Str("A"), Str("B")>>)
                     => /\ bars = <<[option |-> "A", count |-> 2, percentage |-> 67],
                                    [option |-> "B", count |-> 1, percentage |-> 33]>>
                        /\ stat.totalResponses = 3

\* The example survey is loaded: options [A, B], answers [A, A, B].
C3_Witness ==
    /\ results.pc = "done"
    /\ \E k \in DOMAIN results.stats :
         /\ results.stats[k].question.question_type = "single_choice"
         /\ results.stats[k].question.options = <<"A", "B">>
         /\ results.stats[k].totalResponses = 3
         /\ OptionBars(results.stats[k])[1].percentage = 67
         /\ OptionBars(results.stats[k])[2].percentage = 33

----------------------------------------------------------------------------
(* Result aggregation: failures *)

\* What SurveyResults shows after a load that met no failure and found no
\* data: no survey row, or a survey without questions and responses.
EmptyLoads ==
    {Rendered(ResultsNotFound(ResultsMounted)),
     Rendered([ResultsMounted EXCEPT !.survey = SurveyId, !.loading = FALSE,
                                     !.pc = "done"])}

\* C12: when a request of a load fails, what the view shows differs from what
\* it shows after a load without failure that found no data.
C12_FailureSurfaced ==
    results.pc = "failed" => Rendered(results) \notin EmptyLoads

----------------------------------------------------------------------------
(* One view at a time *)

CompareRun ==
    \/ CompareLoadSurvey
    \/ CompareLoadQuestions
    \/ CompareLoadResponses
    \/ CompareLoadAnswers
    \/ CompareBack

DetailRun ==
    \/ DetailLoadResponse
    \/ DetailLoadSurvey
    \/ DetailLoadQuestions
    \/ DetailLoadAnswers
    \/ DetailBack

\* A draft that passes the checks of handleSave.
ValidDraft ==
    [CreateMounted EXCEPT
        !.title = "T",
        !.questions = updateQuestionText(addQuestion(<<>>, "text"), 1, "Q")]

\* The application shows one view at a time; the views other than the list
\* have no way to a view other than the list.
NoView ==
    /\ \A f \in Forms : ~take[f].mounted
    /\ ~create.mounted /\ ~results.mounted
    /\ ~compare.mounted /\ ~detail.mounted
    /\ ~list.mounted

ListRun ==
    \/ SetActiveTab
    \/ ListLoaded
    \/ ListLeave

\* The survey of one text question, with or without a response of u2 to it;
\* the view is CreateSurvey with a draft that is ready to be saved.
InitViews ==
    /\ surveys = <<TheSurvey>>
    /\ \E req \in BOOLEAN : questions = <<QRow(SurveyId, 1, "text", req, <<>>)>>
    /\ \E given \in BOOLEAN :
         /\ responses = IF given
                        THEN <<[id |-> 1, survey_id |-> SurveyId, user_id |-> "u2",
                                created_at |-> 1]>>
                        ELSE <<>>
         /\ answers = IF given
                      THEN <<[response_id |-> 1, question_id |-> 1,
                              answer_value |-> Str("x")]>>
                      ELSE <<>>
    /\ take = [f \in Forms |-> TakeUnmounted(IF f = 1 THEN "u1" ELSE NoUser)]
    /\ create = ValidDraft
    /\ results = ResultsUnmounted
    /\ compare = CompareUnmounted
    /\ detail = DetailUnmounted
    /\ list = ListUnmounted("u1")

NextViews ==
    \/ HandleSave
    \/ InsertSurvey
    \/ InsertQuestions
    \/ CreateBack
    \/ NoView /\ OpenTake(1)
    \/ FormRun(1)
    \/ NoView /\ OpenResults
    \/ ResultsRun
    \/ NoView /\ OpenCompare
    \/ CompareRun
    \/ NoView /\ OpenDetail
    \/ DetailRun
    \/ NoView /\ OpenList
    \/ ListRun

SpecViews == InitViews /\ [][NextViews]_vars

----------------------------------------------------------------------------
(* Requests of one operation *)

\* The requests of each operation, in the order the code awaits them.
loadSurveyRequests == <<"loadSurvey", "loadQuestions", "loadExisting">>
handleSubmitRequests == <<"insertResponse", "insertAnswers">>
handleSaveRequests == <<"insertSurvey", "insertQuestions">>
loadResultsRequests == <<"loadSurvey", "loadResponses", "loadQuestions", "loadAnswers">>
loadComparisonDataRequests ==
    <<"loadSurvey", "loadQuestions", "loadResponses", "loadAnswers">>
loadResponseDetailsRequests ==
    <<"loadResponse", "loadSurvey", "loadQuestions", "loadAnswers">>

NoRequest == {"idle", "done", "failed", "notFound"}

\* From the request `from` a component goes to the request that follows it in
\* its operation or to no request at all; it starts an operation, with the
\* first request of it, only when it has no request in flight.
Forward(operations, from, to) ==
    \/ to = from
    \/ to \in NoRequest
    \/ from \in NoRequest /\ \E o \in operations : to = o[1]
    \/ \E o \in operations : \E i \in 1..(Len(o) - 1) : o[i] = from /\ o[i + 1] = to

\* C13: within one operation no request is issued twice or out of order, and a
\* step in which a request fails leaves the operation with no request in
\* flight, no busy flag and the Data Store as it was.
C13_NoRetry ==
    [][/\ \A f \in Forms :
            /\ Forward({loadSurveyRequests, handleSubmitRequests},
                       take[f].pc, take'[f].pc)
            /\ (/\ take'[f].error # take[f].error
                /\ take'[f].error.kind \in {"db", "duplicate", "notfound"})
               => /\ take'[f].pc = "idle"
                  /\ ~take'[f].loading /\ ~take'[f].submitting
                  /\ UNCHANGED <<surveys, questions, responses, answers>>
       /\ Forward({handleSaveRequests}, create.pc, create'.pc)
       /\ (create'.error # create.error /\ create'.error.kind = "db")
          => /\ create'.pc = "idle" /\ ~create'.loading
             /\ UNCHANGED <<surveys, questions, responses, answers>>
       /\ Forward({loadResultsRequests}, results.pc, results'.pc)
       /\ Forward({loadComparisonDataRequests}, compare.pc, compare'.pc)
       /\ Forward({loadResponseDetailsRequests}, detail.pc, detail'.pc)
       /\ \A c \in {<<results, results'>>, <<compare, compare'>>,
                     <<detail, detail'>>} :
            (c[1].pc \notin NoRequest /\ c[2].pc \in {"failed", "notFound"})
                => /\ ~c[2].loading
                   /\ UNCHANGED <<surveys, questions, responses, answers>>]_vars

\* The responses insert of a handleSubmit failed: the form is shown again with
\* the failure, and the respondent has no response row.
C13_Witness ==
    \E f \in Forms :
        /\ take[f].error = DbError
        /\ take[f].pc = "idle"
        /\ View(take[f]) = "form"
        /\ take[f].questions # <<>>
        /\ ~ExistingResponse(SurveyId, take[f].user)

----------------------------------------------------------------------------
(* Not found *)

\* The views whose survey select, or response select, returned zero rows and
\* whose load has finished.
TakeNotFound(t) ==
    t.mounted /\ ~t.loading /\ t.error = NotFoundError /\ t.pc = "idle"

ShowsNotFound ==
    \/ \E f \in Forms : TakeNotFound(take[f])
    \/ results.pc = "notFound"
    \/ compare.pc = "done" /\ compare.survey = 0
    \/ detail.pc = "notFound"
    \/ detail.pc = "done" /\ detail.survey = 0

\* The panel of every view that got zero rows.
NotFoundPanels ==
    /\ \A f \in Forms :
         TakeNotFound(take[f]) =>
             View(take[f]) = "notFound" /\ take[f].survey = 0
    /\ results.pc = "notFound" =>
           /\ ResultsView(results) = "notFound" /\ results.survey = 0
           /\ Rendered(results).stats = <<>>
    /\ (compare.pc = "done" /\ compare.survey = 0) =>
           CompareView(compare) = "notFound" /\ ~TableShown(compare)
    /\ (detail.pc = "notFound" \/ (detail.pc = "done" /\ detail.survey = 0)) =>
           DetailView(detail) = "notFound" /\ detail.survey = 0

\* C14: a view that got zero rows for its survey or its response shows, once
\* loading has finished, the not-found panel with survey = null and neither a
\* form nor statistics nor a table, and nothing is written to the Data Store
\* while it is shown.
C14_NotFound ==
    /\ []NotFoundPanels
    /\ [][ShowsNotFound => UNCHANGED <<surveys, questions, responses, answers>>]_vars

\* UserResponseComparison got zero rows for the survey, went on to load the
\* responses of the user and finished.
C14_Witness ==
    /\ compare.pc = "done" /\ compare.survey = 0
    /\ compare.responses # <<>>
    /\ CompareView(compare) = "notFound"

----------------------------------------------------------------------------
(* Response comparison *)

\* The answer rows of the history: response i answered the text question with
\* vals[i], if that is a value, and the multiple_choice question, if i is odd.
RECURSIVE HistoryAnswers(_, _)
HistoryAnswers(vals, i) ==
    IF i > Len(vals) THEN <<>>
    ELSE (IF i % 2 = 1
          THEN <<[response_id |-> i, question_id |-> 2,
                  answer_value |-> List(<<"A", "B">>)]>>
          ELSE <<>>)
         \o (IF vals[i] = NoValue THEN <<>>
             ELSE <<[response_id |-> i, question_id |-> 1, answer_value |-> vals[i]]>>)
         \o HistoryAnswers(vals, i + 1)

\* UserResponseComparison as a component of its own: what it does with the
\* rows its selects return.  The history of u1 has up to MaxHistory rows, in
\* the table in the order of their creation or in the opposite order; the
\* rows are not restricted to what TakeSurvey can have written.  u2 has one
\* response.
InitCompare ==
    /\ surveys = <<TheSurvey>>
    /\ questions = <<QRow(SurveyId, 1, "text", FALSE, <<>>),
                     QRow(SurveyId, 2, "multiple_choice", FALSE, DefaultOptions)>>
    /\ \E n \in 0..MaxHistory, newestLast \in BOOLEAN :
         /\ responses =
                [i \in 1..n |->
                    [id |-> i, survey_id |-> SurveyId, user_id |-> "u1",
                     created_at |-> IF newestLast THEN i ELSE n + 1 - i]]
                \o <<[id |-> n + 1, survey_id |-> SurveyId, user_id |-> "u2",
                      created_at |-> n + 1]>>
         /\ \E vals \in [1..n -> {NoValue} \cup {Str(v) : v \in TextValues}] :
              answers = HistoryAnswers(vals, 1)
                        \o <<[response_id |-> n + 1, question_id |-> 1,
                              answer_value |-> Str("x")]>>
    /\ take = [f \in Forms |-> TakeUnmounted(NoUser)]
    /\ create = CreateUnmounted
    /\ results = ResultsUnmounted
    /\ compare = CompareUnmounted
    /\ detail = DetailUnmounted
    /\ list = ListUnmounted("u1")

NextCompare == OpenCompare \/ CompareRun \/ ToggleResponse

SpecCompare == InitCompare /\ [][NextCompare]_vars

\* The rows of the responses table of one user and one survey.
HistoryRows(userId, sid) ==
    {i \in DOMAIN responses :
        responses[i].user_id = userId /\ responses[i].survey_id = sid}

\* C15: when loadComparisonData has succeeded, the history it loaded is the
\* user's responses to the survey with the newest first, and the selection is
\* empty for no response, the response for one, and the first two of the
\* history, in that order, for two or more.
C15_DefaultSelection ==
    [][(compare.pc = "loadAnswers" /\ compare'.pc = "done") =>
          LET history == compare'.responses
              selected == compare'.selectedResponses
          IN  /\ Len(history) = Cardinality(HistoryRows(compare.userId, SurveyId))
              /\ \A i \in DOMAIN history :
                    \E j \in HistoryRows(compare.userId, SurveyId) :
                        history[i] = responses[j]
              /\ \A i, j \in DOMAIN history :
                    i < j => history[i].created_at > history[j].created_at
              /\ Len(history) = 0 => selected = <<>>
              /\ Len(history) = 1 => selected = <<history[1].id>>
              /\ Len(history) >= 2 => selected = <<history[1].id, history[2].id>>]_vars

\* A history of three responses or more, which the table holds oldest first,
\* is loaded and its two newest responses are selected.
C15_Witness ==
    /\ compare.pc = "done"
    /\ Len(compare.responses) >= 3
    /\ compare.responses[1].id > compare.responses[2].id
    /\ compare.selectedResponses =
           <<compare.responses[1].id, compare.responses[2].id>>

LoadedIds == {compare.responses[i].id : i \in DOMAIN compare.responses}

SelectionInBounds ==
    LET selected == compare.selectedResponses
    IN  /\ Len(selected) <= 3
        /\ \A i, j \in DOMAIN selected : selected[i] = selected[j] => i = j
        /\ Range(selected) \subseteq LoadedIds

\* C16: the selection holds at most 3 ids, none twice, all of loaded responses;
\* a step that changes the selection once loading has finished removes one
\* selected id, or appends one unselected id to a selection of fewer than 3.
C16_SelectionCap ==
    /\ []SelectionInBounds
    /\ [][(/\ compare.pc \in {"done", "failed"} /\ compare'.pc = compare.pc
           /\ compare'.selectedResponses # compare.selectedResponses)
          => LET selected == compare.selectedResponses
             IN  \E id \in LoadedIds :
                   \/ /\ id \in Range(selected)
                      /\ compare'.selectedResponses =
                             SelectSeq(selected, LAMBDA x : x # id)
                   \/ /\ id \notin Range(selected)
                      /\ Len(selected) < 3
                      /\ compare'.selectedResponses = Append(selected, id)]_vars

\* Three responses are selected and a fourth one is not.
C16_Witness ==
    /\ compare.pc = "done"
    /\ Len(compare.selectedResponses) = 3
    /\ LoadedIds \ Range(compare.selectedResponses) # {}

\* The rows among `rows` that answer one question in one response.
Matching(rows, responseId, questionId) ==
    {i \in DOMAIN rows :
        /\ rows[i].response_id = responseId
        /\ rows[i].question_id = questionId}

\* C17: in the table, the cell of a question and a selected response shows the
\* value of a loaded answer of that response to that question, and the
\* unanswered marker exactly when no loaded answer is of that response and
\* that question; after a load that succeeded the loaded answers of a
\* response and a question are those of the Data Store.
C17_AlignedCells ==
    TableShown(compare) =>
        \A q \in DOMAIN compare.questions :
            \A k \in DOMAIN compare.selectedResponses :
                LET cell == Table(compare)[q][k]
                    responseId == compare.selectedResponses[k]
                    questionId == compare.questions[q].id
                    matching == Matching(compare.answers, responseId, questionId)
                IN  /\ cell = Unanswered <=> matching = {}
                    /\ matching # {} =>
                          \E i \in matching :
                              /\ cell.kind = "value"
                              /\ cell.text =
                                    IF compare.answers[i].answer_value.kind = "list"
                                    THEN join(compare.answers[i].answer_value.l)
                                    ELSE compare.answers[i].answer_value.s
                    /\ compare.pc = "done" =>
                          {compare.answers[i] : i \in matching}
                              = {answers[i] : i \in Matching(answers, responseId,
                                                             questionId)}

\* The table shows, for one question, different values of two responses and,
\* for another, a list of one response and the unanswered marker of another.
C17_Witness ==
    /\ TableShown(compare)
    /\ \E q \in DOMAIN compare.questions :
         \E k, l \in DOMAIN compare.selectedResponses :
             /\ Table(compare)[q][k].kind = "value"
             /\ Table(compare)[q][l].kind = "value"
             /\ Table(compare)[q][k].text # Table(compare)[q][l].text
    /\ \E q \in DOMAIN compare.questions :
         \E k, l \in DOMAIN compare.selectedResponses :
             /\ Table(compare)[q][k] = [kind |-> "value", text |-> "A, B"]
             /\ Table(compare)[q][l] = Unanswered

\* C18: when the load has succeeded for a survey that exists and the user has
\* fewer than two responses to it, the view is the cannot-compare panel and
\* the table is not shown.
C18_CannotCompare ==
    (/\ compare.pc = "done" /\ compare.survey # 0
     /\ Cardinality(HistoryRows(compare.userId, SurveyId)) < 2)
        => /\ CompareView(compare) = "cannotCompare"
           /\ ~TableShown(compare)

\* The user has one response, which the default selection selected.
C18_Witness ==
    /\ compare.pc = "done" /\ compare.survey # 0
    /\ Len(compare.responses) = 1
    /\ compare.selectedResponses = <<compare.responses[1].id>>
    /\ CompareView(compare) = "cannotCompare"

----------------------------------------------------------------------------
(* Result aggregation: text answers, and values that are not options *)

\* The answers select of loadResults on the Data Store as it is.
AnswersOfSurvey ==
    LET ids == {responses[i].id : i \in {j \in DOMAIN responses :
                                            responses[j].survey_id = SurveyId}}
    IN  SelectSeq(answers, LAMBDA a : a.response_id \in ids)

\* C20: for every text question the loaded results hold the values of all
\* answers to the question, each one as often as it was given, in the order
\* of the answers select, and the total is the length of that list.
C20_TextAnswers ==
    results.pc = "done" =>
        \A k \in DOMAIN results.stats :
            LET stat == results.stats[k]
                given == SelectSeq(AnswersOfSurvey,
                                   LAMBDA a : a.question_id = stat.question.id)
            IN  stat.question.question_type = "text" =>
                  /\ Len(stat.textAnswers) = Len(given)
                  /\ \A i \in DOMAIN given :
                        stat.textAnswers[i] = given[i].answer_value
                  /\ stat.totalResponses = Len(stat.textAnswers)

\* A text question was answered x, the empty text and x again, in that order.
C20_Witness ==
    /\ results.pc = "done"
    /\ \E k \in DOMAIN results.stats :
         /\ results.stats[k].question.question_type = "text"
         /\ results.stats[k].textAnswers = <<Str("x"), Str(""), Str("x")>>

\* A label that is an option of no question.
Stray == "C"

\* The values an answers row can hold for a choice question when the values
\* are not restricted to the options of the question.
AnyValues(q) ==
    IF q.question_type = "single_choice"
    THEN {Str(o) : o \in Labels \cup {Stray}}
    ELSE {List(l) : l \in NoRepeatSeqs(Labels \cup {Stray})}

\* SurveyResults on a survey of one choice question whose answers hold any
\* labels, those of no option included.
InitStray ==
    /\ surveys = <<TheSurvey>>
    /\ \E ty \in {"single_choice", "multiple_choice"}, opts \in OptionLists,
          n \in 0..MaxStrayRows :
         LET q1 == QRow(SurveyId, 1, ty, FALSE, opts)
         IN  /\ questions = <<q1>>
             /\ responses = [i \in 1..n |->
                    [id |-> i, survey_id |-> SurveyId, user_id |-> Respondent(i),
                     created_at |-> i]]
             /\ \E vals \in [1..n -> AnyValues(q1) \cup {NoValue}] :
                  answers = AnswerRows(vals, FALSE, 1)
    /\ take = [f \in Forms |-> TakeUnmounted(NoUser)]
    /\ create = CreateUnmounted
    /\ results = ResultsUnmounted
    /\ compare = CompareUnmounted
    /\ detail = DetailUnmounted
    /\ list = ListUnmounted("u1")

SpecStray == InitStray /\ [][NextAgg]_vars

\* The answer rows without the values that are not options of the question.
Declared(q, rows) ==
    [i \in DOMAIN rows |->
        IF rows[i].answer_value.kind = "list"
        THEN [rows[i] EXCEPT !.answer_value =
                 List(SelectSeq(rows[i].answer_value.l,
                                LAMBDA v : v \in Range(q.options)))]
        ELSE rows[i]]

DeclaredRows(q, rows) ==
    SelectSeq(Declared(q, rows),
              LAMBDA a : a.answer_value.kind = "list"
                         \/ a.answer_value.s \in Range(q.options))

\* C19: the loading of results of a survey whose answers hold values that are
\* no options goes through, and the count shown for every declared option is
\* the count shown when those values are taken out of the answers.
C19_UndeclaredIgnored ==
    results.pc = "done" =>
        \A k \in DOMAIN results.stats :
            LET stat == results.stats[k]
                q == stat.question
                without == QuestionStats(q, DeclaredRows(q, AnswersOfSurvey))
            IN  IsChoice(q) =>
                  /\ Len(OptionBars(stat)) = Len(q.options)
                  /\ \A i \in DOMAIN q.options :
                        OptionBars(stat)[i].count = OptionBars(without)[i].count

\* Results are shown for a question with an answer value that is no option
\* and an answer value that is one.
C19_Witness ==
    /\ results.pc = "done"
    /\ \E k \in DOMAIN results.stats :
         LET stat == results.stats[k]
         IN  /\ IsChoice(stat.question)
             /\ DOMAIN stat.answers \ Range(stat.question.options) # {}
             /\ \E i \in DOMAIN stat.question.options :
                  OptionBars(stat)[i].count > 0

----------------------------------------------------------------------------
(* The survey list and its tabs *)

\* Tables of surveys of the users.
SurveyTables ==
    UNION {[1..n -> Users] : n \in 0..MaxSurveys}

\* SurveyList of u1 on a Data Store that holds surveys of u1 and of u2.
InitList ==
    /\ \E creators \in SurveyTables :
         surveys = [i \in DOMAIN creators |->
                       [id |-> i, title |-> "S", creator_id |-> creators[i]]]
    /\ questions = <<>>
    /\ responses = <<>>
    /\ answers = <<>>
    /\ take = [f \in Forms |-> TakeUnmounted(NoUser)]
    /\ create = CreateUnmounted
    /\ results = ResultsUnmounted
    /\ compare = CompareUnmounted
    /\ detail = DetailUnmounted
    /\ list = ListUnmounted("u1")

NextList ==
    \/ OpenList
    \/ SetActiveTab
    \/ ListLoaded
    \/ ListLeave

SpecList == InitList /\ [][NextList]_vars

\* C24: when no loadSurveys is in flight, loading is false and no load has
\* failed, the list that is shown is the result of the select of the active
\* tab.
C24_ListOfActiveTab ==
    (list.mounted /\ list.requests = <<>> /\ ~list.loading /\ ~list.logged)
        => list.surveys = SelectSurveys(list.activeTab, list.user)

----------------------------------------------------------------------------
(* Rows are inserted and never changed *)

\* Every row of the table is a row of the table after the step, unchanged.
RowsKept(rows, after) ==
    /\ Len(rows) <= Len(after)
    /\ \A i \in DOMAIN rows : after[i] = rows[i]

\* A step of one of the views that only read.
ReadOnlyViewStep ==
    \/ list' # list
    \/ results' # results
    \/ compare' # compare
    \/ detail' # detail

\* C21: every step of the application keeps every row of the four tables as
\* it is, and a step of SurveyList, SurveyResults, UserResponseComparison or
\* UserResponseDetail leaves the four tables as they are.
C21_RowsKept ==
    [][/\ RowsKept(surveys, surveys')
       /\ RowsKept(questions, questions')
       /\ RowsKept(responses, responses')
       /\ RowsKept(answers, answers')
       /\ ReadOnlyViewStep => UNCHANGED <<surveys, questions, responses, answers>>]_vars

\* A survey with its question and a response of u1 with its answer were
\* inserted, and the results view has then loaded.
C21_Witness ==
    /\ Len(surveys) = 2 /\ Len(questions) = 2
    /\ \E i \in DOMAIN responses :
         /\ responses[i].user_id = "u1"
         /\ \E j \in DOMAIN answers : answers[j].response_id = responses[i].id
    /\ results.pc = "done"

----------------------------------------------------------------------------
(* Order of the questions *)

\* The question rows of a survey, in the order of their insertion.
QuestionRowsOf(sid) == SelectSeq(questions, LAMBDA q : q.survey_id = sid)

\* The draft question at position i (counted from 0) has order_index i.
DraftInOrder ==
    \A i \in DOMAIN create.questions : create.questions[i].order_index = i - 1

\* C22: the draft question at list position i has order_index i, and the
\* question rows that handleSave has inserted for a survey have the order
\* indexes 0..n-1 in the order they were authored in, which is the order they
\* are selected in.
C22_OrderIndexIsPosition ==
    /\ DraftInOrder
    /\ \A s \in 1..Len(surveys) :
         LET rows == QuestionRowsOf(s)
         IN  /\ \A i \in DOMAIN rows : rows[i].order_index = i - 1
             /\ SelectQuestions(s) = rows

----------------------------------------------------------------------------
(* One invocation at a time *)

\* A request of handleSubmit of the form, or of handleSave, is in flight.
SubmitInFlight(f) == take[f].pc \in Range(handleSubmitRequests)
SaveInFlight == create.pc \in Range(handleSaveRequests)

\* C23: while a request of handleSubmit or of handleSave is in flight the
\* busy flag of the form is true, and a call of one of the two operations is
\* made when no request of that operation is in flight on the form.
C23_OneInvocation ==
    /\ [](\A f \in Forms : SubmitInFlight(f) => take[f].submitting)
    /\ [](SaveInFlight => create.loading)
    /\ [][\A f \in Forms : HandleSubmit(f) => ~SubmitInFlight(f)]_vars
    /\ [][HandleSave => ~SaveInFlight]_vars

\* A survey was saved, and the second request of a handleSubmit is in flight.
C23_Witness ==
    /\ Len(surveys) = 2
    /\ \E f \in Forms : take[f].pc = "insertAnswers" /\ take[f].submitting

----------------------------------------------------------------------------
(* Required questions of the survey *)

\* The required questions of the survey, as the Data Store holds them, that
\* the recorded answers of the form have no non-empty answer to.
RequiredUnanswered(t) ==
    {q \in Range(SelectQuestions(SurveyId)) :
        q.is_required /\ ~HasAnswer(t.answers, q.id)}

\* C25: a handleSubmit that has inserted its response row was called on
\* recorded answers that hold a non-empty answer to every required question
\* of the survey.
C25_RequiredOfSurveyAnswered ==
    \A f \in Forms :
        take[f].pc = "insertAnswers" => RequiredUnanswered(take[f]) = {}

----------------------------------------------------------------------------
(* The response history of a user *)

\* The rows of responses of the user to the survey.
ResponsesOf(u) ==
    {i \in DOMAIN responses :
        responses[i].user_id = u /\ responses[i].survey_id = SurveyId}

\* C26: the Data Store holds at most one response of a user to the survey,
\* the history that UserResponseComparison has loaded has at most one
\* response, the view is never the comparison and its table is never shown,
\* and a load that succeeded for a survey that exists ends in the
\* cannot-compare panel.
C26_NoComparison ==
    /\ \A u \in Users : Cardinality(ResponsesOf(u)) <= 1
    /\ Len(compare.responses) <= 1
    /\ CompareView(compare) # "comparison"
    /\ ~TableShown(compare)
    /\ (compare.pc = "done" /\ compare.survey # 0)
           => CompareView(compare) = "cannotCompare"

\* The history of u1, who answered the survey through TakeSurvey, was loaded:
\* one response, and the cannot-compare panel.
C26_Witness ==
    /\ compare.pc = "done" /\ compare.userId = "u1"
    /\ Len(compare.responses) = 1
    /\ CompareView(compare) = "cannotCompare"

----------------------------------------------------------------------------
(* Results of answers written through TakeSurvey *)

\* Option lists of CreateSurvey: two labels, or one label twice.
PollOptions == {DefaultOptions, <<"A", "A">>}

\* The forms of u1 and of u2 on a survey of one multiple_choice question, and
\* the results view.
InitPoll ==
    /\ surveys = <<TheSurvey>>
    /\ \E opts \in PollOptions :
         questions = <<QRow(SurveyId, 1, "multiple_choice", FALSE, opts)>>
    /\ responses = <<>>
    /\ answers = <<>>
    /\ take = [f \in Forms |->
                  TakeUnmounted(IF f = 1 THEN "u1" ELSE IF f = 2 THEN "u2"
                                ELSE NoUser)]
    /\ create = CreateUnmounted
    /\ results = ResultsUnmounted
    /\ compare = CompareUnmounted
    /\ detail = DetailUnmounted
    /\ list = ListUnmounted("u1")

\* The steps of a mounted form whose question has checkboxes.
PollRun(f) ==
    \/ TakeBack(f)
    \/ LoadSurvey(f)
    \/ LoadQuestions(f)
    \/ LoadExisting(f)
    \/ CheckboxChange(f)
    \/ HandleSubmit(f)
    \/ InsertResponse(f)
    \/ InsertAnswers(f)

\* No form is open.
NoForm == \A f \in Forms : ~take[f].mounted

\* One respondent at a time takes the survey, while the results view loads at
\* any time.
NextPoll ==
    \/ \E f \in Forms : NoForm /\ OpenTake(f)
    \/ \E f \in Forms : PollRun(f)
    \/ OpenResults
    \/ ResultsRun

SpecPoll == InitPoll /\ [][NextPoll]_vars

NoDuplicates(l) == \A i, j \in DOMAIN l : l[i] = l[j] => i = j

----------------------------------------------------------------------------
(* Every request is answered *)

\* The Data Store answers a request that is in flight, with a result or with
\* a failure.
Answered ==
    /\ \A f \in Forms :
         /\ WF_vars(LoadSurvey(f)) /\ WF_vars(LoadQuestions(f))
         /\ WF_vars(LoadExisting(f))
         /\ WF_vars(InsertResponse(f)) /\ WF_vars(InsertAnswers(f))
    /\ WF_vars(InsertSurvey) /\ WF_vars(InsertQuestions)
    /\ WF_vars(ResultsLoadSurvey) /\ WF_vars(ResultsLoadResponses)
    /\ WF_vars(ResultsLoadQuestions) /\ WF_vars(ResultsLoadAnswers)
    /\ WF_vars(CompareLoadSurvey) /\ WF_vars(CompareLoadQuestions)
    /\ WF_vars(CompareLoadResponses) /\ WF_vars(CompareLoadAnswers)
    /\ WF_vars(DetailLoadResponse) /\ WF_vars(DetailLoadSurvey)
    /\ WF_vars(DetailLoadQuestions) /\ WF_vars(DetailLoadAnswers)
    /\ WF_vars(ListLoaded)

\* The views, one at a time, on a Data Store that answers every request; the
\* user is free to do nothing.
SpecAnswered == InitViews /\ [][NextViews]_vars /\ Answered

\* C28: a view that shows its loading state comes to show another state, and
\* a form whose submitting or loading flag is set comes to have it reset.
C28_LoadingEnds ==
    /\ \A f \in Forms : (View(take[f]) = "loading") ~> (View(take[f]) # "loading")
    /\ (ListView(list) = "loading") ~> (ListView(list) # "loading")
    /\ (ResultsView(results) = "loading") ~> (ResultsView(results) # "loading")
    /\ (CompareView(compare) = "loading") ~> (CompareView(compare) # "loading")
    /\ (DetailView(detail) = "loading") ~> (DetailView(detail) # "loading")
    /\ \A f \in Forms : take[f].submitting ~> ~take[f].submitting
    /\ create.loading ~> ~create.loading

\* A handleSave has succeeded, and a handleSubmit that failed has reset its
\* flag on the form it was called from.
C28_Witness ==
    /\ Len(surveys) = 2
    /\ \E f \in Forms :
         /\ View(take[f]) = "form" /\ take[f].error = DbError
         /\ take[f].response # 0 /\ ~take[f].submitting

====
